---- MODULE Spec2Model ----
(***************************************************************************)
(* A model of the card workers of src/src/index.ts: the Duolingo card      *)
(* (route '/:username/*', fetchUser, loadAvatar, resolveCourses) and the    *)
(* Qiita card (route '/:user_id', fetchQiita, fetchAllItems, the response   *)
(* cache).                                                                  *)
(*                                                                          *)
(* Strings the code transforms are sequences of tokens: a token is one of   *)
(* the five characters escapeXml rewrites, or a run of other characters.    *)
(* An optional JSON field is <<>> when absent and <<v>> when present.       *)
(***************************************************************************)
EXTENDS Integers, Sequences, FiniteSets

VARIABLES
    user,        \* Duolingo: the DuolingoUser handed to resolveCourses
    showSpecial, \* Duolingo: c.req.path.endsWith('/s')
    cpc,         \* resolveCourses: "input" before the call, "done" after it
    resolved,    \* resolveCourses: the value it returned
    flagRecs,    \* resolveCourses: its local array `flags` when it returned
    dreq,        \* Duolingo: the request, [path, theme]
    dpc,         \* Duolingo: where the handler of '/:username/*' stands
    dresp,       \* Duolingo: the response returned, <<>> before there is one
    dcalls,      \* Duolingo: the fetches issued so far, with their outcomes
    qreq,        \* Qiita: the request being handled, [userId, query]
    qpc,         \* Qiita: where the handler of '/:user_id' stands
    cache,       \* Qiita: caches.default, a function from cache keys to responses
    qstored,     \* Qiita: the userId, theme and query of the requests whose cache.put succeeded
    qhit,        \* Qiita: whether cache.match found an entry for this request
    quser,       \* Qiita: the handler's `user`
    items,       \* Qiita: fetchAllItems' `items`
    page,        \* Qiita: fetchAllItems' `page`
    qcalls,      \* Qiita: the cache and fetch operations of this request, in order
    qresp        \* Qiita: the response returned, <<>> before there is one

courseVars == <<cpc, resolved, flagRecs>>

duoVars == <<dreq, dpc, dresp, dcalls>>

qiitaVars == <<qreq, qpc, cache, qstored, qhit, quser, items, page, qcalls, qresp>>

vars ==
    <<user, showSpecial, cpc, resolved, flagRecs, dreq, dpc, dresp, dcalls,
      qreq, qpc, cache, qstored, qhit, quser, items, page, qcalls, qresp>>

(***************************************************************************)
(* Bounds of the model                                                     *)
(***************************************************************************)
MaxCourses == 2      \* longest enumerated user.courses
CrowdMax == 34       \* longest list of pairwise distinct languages

(***************************************************************************)
(* resolveCourses                                                          *)
(***************************************************************************)
MaxFlags == 32

SpecialCodes == <<"zs", "ms", "zc">>

Min(a, b) == IF a < b THEN a ELSE b

Max(a, b) == IF a < b THEN b ELSE a

Range(s) == {s[i] : i \in 1..Len(s)}

\* opt ?? dflt
OrElse(opt, dflt) == IF opt = <<>> THEN dflt ELSE opt[1]

\* const xp = c.points ?? c.xp ?? 0
courseXp(c) == OrElse(c.points, OrElse(c.xp, 0))

\* const courses = [...(user.languages ?? []), ...(user.courses ?? [])]
courseList(u) == OrElse(u.languages, <<>>) \o OrElse(u.courses, <<>>)

EmptyWalk == [flags |-> <<>>, seen |-> {}, totalXp |-> 0]

\* one iteration of `for (const c of courses)`
walkStep(acc, c) ==
    IF c.learningLanguage = ""
    THEN acc
    ELSE [totalXp |-> acc.totalXp + courseXp(c),
          seen    |-> acc.seen \cup {c.learningLanguage},
          flags   |-> IF c.learningLanguage \in acc.seen
                      THEN acc.flags
                      ELSE Append(acc.flags,
                                  [code |-> c.learningLanguage,
                                   xp |-> courseXp(c),
                                   special |-> FALSE])]

RECURSIVE walkCourses(_, _, _)
walkCourses(courses, i, acc) ==
    IF i > Len(courses)
    THEN acc
    ELSE walkCourses(courses, i + 1, walkStep(acc, courses[i]))

\* specialStep without the seen.has(code) test
specialStep_NoSeenTest(flags, seen, code) ==
    Append(flags, [code |-> code, xp |-> 0, special |-> TRUE])

\* specialStep pushing the placeholder as an ordinary flag
specialStep_Unmarked(flags, seen, code) ==
    IF code \notin seen
    THEN Append(flags, [code |-> code, xp |-> 0, special |-> FALSE])
    ELSE flags

\* one iteration of `for (const code of ['zs', 'ms', 'zc'])`
specialStep(flags, seen, code) ==
    IF code \notin seen
    THEN Append(flags, [code |-> code, xp |-> 0, special |-> TRUE])
    ELSE flags

RECURSIVE addSpecial(_, _, _, _)
addSpecial(flags, seen, show, i) ==
    IF ~show \/ i > Len(SpecialCodes)
    THEN flags
    ELSE addSpecial(specialStep(flags, seen, SpecialCodes[i]), seen, show, i + 1)

Num(b) == IF b THEN 1 ELSE 0

\* compareFlags with the XP operands exchanged
compareFlags_Ascending(a, b) ==
    IF a.special # b.special
    THEN Num(b.special) - Num(a.special)
    ELSE a.xp - b.xp

\* the comparator handed to flags.sort
compareFlags(a, b) ==
    IF a.special # b.special
    THEN Num(b.special) - Num(a.special)
    ELSE b.xp - a.xp

\* x goes before the first element that the comparator orders after it
RECURSIVE insertFlag(_, _)
insertFlag(sorted, x) ==
    IF sorted = <<>>
    THEN <<x>>
    ELSE IF compareFlags(Head(sorted), x) > 0
         THEN <<x>> \o sorted
         ELSE <<Head(sorted)>> \o insertFlag(Tail(sorted), x)

\* Array.prototype.sort is stable
RECURSIVE sortFlags(_, _, _)
sortFlags(flags, i, sorted) ==
    IF i > Len(flags)
    THEN sorted
    ELSE sortFlags(flags, i + 1, insertFlag(sorted, flags[i]))

\* .slice(0, 32)
sliceFlags(s) == SubSeq(s, 1, Min(Len(s), MaxFlags))

sortedFlags(u, show) ==
    LET w == walkCourses(courseList(u), 1, EmptyWalk)
    IN  sortFlags(addSpecial(w.flags, w.seen, show, 1), 1, <<>>)

resolveCourses(u, show) ==
    LET sorted == sortedFlags(u, show)
    IN  [totalXp |-> walkCourses(courseList(u), 1, EmptyWalk).totalXp,
         flags   |-> sliceFlags([i \in 1..Len(sorted) |-> sorted[i].code])]

(***************************************************************************)
(* Inputs of resolveCourses                                                *)
(***************************************************************************)
LearningLanguages == {"es", "fr", "zs", ""}

FromLanguages == {"en", "ja"}

\* (points, xp) as the upstream reports them: neither, xp only, both
XpFields == {<<<<>>, <<>>>>, <<<<>>, <<1>>>>, <<<<2>>, <<1>>>>}

Courses ==
    {[learningLanguage |-> l, fromLanguage |-> f, points |-> x[1], xp |-> x[2]] :
        l \in LearningLanguages, f \in FromLanguages, x \in XpFields}

SeqUpTo(S, n) == UNION {[1..k -> S] : k \in 0..n}

\* user.languages: absent, empty, or one legacy record
LegacyLists ==
    {<<>>, <<<<>>>>,
     <<<<[learningLanguage |-> "es", fromLanguage |-> "en", points |-> <<2>>, xp |-> <<>>]>>>>,
     <<<<[learningLanguage |-> "zs", fromLanguage |-> "en", points |-> <<>>, xp |-> <<1>>]>>>>}

CrowdCodes ==
    <<"zs", "l02", "l03", "l04", "l05", "l06", "l07", "l08", "l09", "l10",
      "l11", "l12", "l13", "l14", "l15", "l16", "l17", "l18", "l19", "l20",
      "l21", "l22", "l23", "l24", "l25", "l26", "l27", "l28", "l29", "l30",
      "l31", "l32", "l33", "l34", "l35", "l36", "l37", "l38", "l39", "l40">>

\* n courses in n distinct languages, XP 0, 1, 2, 0, 1, 2, ...
Crowd(n) ==
    [i \in 1..n |-> [learningLanguage |-> CrowdCodes[i], fromLanguage |-> "en",
                     points |-> <<>>, xp |-> <<i % 3>>]]

Users ==
    {[languages |-> l, courses |-> <<c>>] : l \in LegacyLists, c \in SeqUpTo(Courses, MaxCourses)}
    \cup {[languages |-> <<<<>>>>, courses |-> <<>>]}
    \cup {[languages |-> <<>>, courses |-> <<Crowd(n)>>] : n \in (MaxFlags - 4)..CrowdMax}

NoResult == [totalXp |-> 0, flags |-> <<>>]

\* the Duolingo handler is not part of this specification
DuoOff == dreq = <<>> /\ dpc = "off" /\ dresp = <<>> /\ dcalls = <<>>

\* the Qiita handler is not part of this specification
QiitaOff ==
    /\ qreq = <<>> /\ qpc = "off" /\ cache = <<>> /\ qstored = {} /\ qhit = FALSE
    /\ quser = <<>> /\ items = <<>> /\ page = 0 /\ qcalls = <<>> /\ qresp = <<>>

CInit ==
    /\ DuoOff
    /\ QiitaOff
    /\ user \in Users
    /\ showSpecial \in BOOLEAN
    /\ cpc = "input"
    /\ resolved = NoResult
    /\ flagRecs = <<>>

Resolve ==
    /\ cpc = "input"
    /\ cpc' = "done"
    /\ resolved' = resolveCourses(user, showSpecial)
    /\ flagRecs' = sortedFlags(user, showSpecial)
    /\ UNCHANGED <<user, showSpecial, duoVars, qiitaVars>>

CNext == Resolve

SpecCourses == CInit /\ [][CNext]_vars

(***************************************************************************)
(* The Duolingo card: utilities                                            *)
(***************************************************************************)
entity(t) ==
    CASE t = "<" -> "&lt;"
      [] t = ">" -> "&gt;"
      [] t = "&" -> "&amp;"
      [] t = "\"" -> "&quot;"
      [] t = "'" -> "&apos;"
      [] OTHER -> t

\* str.replace(/[<>&"']/g, ...)
escapeXml(str) == [i \in 1..Len(str) |-> entity(str[i])]

\* the digits of n >= 0 in groups of three, most significant group first
RECURSIVE groupDigits(_)
groupDigits(n) ==
    IF n < 1000 THEN <<n>> ELSE Append(groupDigits(n \div 1000), n % 1000)

\* new Intl.NumberFormat('en-US').format(n), for an integer n
formatNumber(n) ==
    IF n < 0
    THEN [sign |-> "-", groups |-> groupDigits(0 - n)]
    ELSE [sign |-> "", groups |-> groupDigits(n)]

\* the bytes in groups of three with the padding of the last group
toBase64(buf, mime) ==
    [mime |-> mime, base64 |-> [bytes |-> buf, pad |-> (3 - (Len(buf) % 3)) % 3]]

svgResponse(svg) ==
    [status |-> 200,
     contentType |-> <<"image/svg+xml; charset=utf-8">>,
     cacheControl |-> <<"public, max-age=0, s-maxage=86400">>,
     body |-> svg]

errorSvg(message, status) ==
    [status |-> status,
     contentType |-> <<"image/svg+xml; charset=utf-8">>,
     cacheControl |-> <<>>,
     body |-> [kind |-> "error", text |-> escapeXml(message)]]

\* c.body(null, 204)
noContent == [status |-> 204, contentType |-> <<>>, cacheControl |-> <<>>, body |-> <<>>]

Throw(message) == [ok |-> FALSE, message |-> message]

Return(value) == [ok |-> TRUE, value |-> value]

\* Response.ok
resOk(status) == status >= 200 /\ status <= 299

(***************************************************************************)
(* The Duolingo card: fetchUser, loadAvatar, buildSvg                      *)
(* A reply of status 0 stands for a fetch that rejects.                    *)
(***************************************************************************)
userUrl(username) == <<"https://www.duolingo.com/2017-06-30/users?username=">> \o username

fetchUser(reply) ==
    IF reply.status = 0
    THEN Throw(<<"fetch failed">>)
    ELSE IF ~resOk(reply.status)
         THEN Throw(<<"User not found">>)
         ELSE IF reply.users = <<>>
              THEN Throw(<<"User not found">>)
              ELSE Return(reply.users[1])

\* picture.startsWith('http') ? picture : `https:${picture}`, then /xlarge
avatarUrl(picture) ==
    (IF picture # <<>> /\ picture[1] \in {"http:", "https:"}
     THEN picture
     ELSE <<"https:">> \o picture) \o <<"/xlarge">>

loadAvatar(reply) ==
    IF reply.status = 0
    THEN Throw(<<"fetch failed">>)
    ELSE IF ~resOk(reply.status)
         THEN Throw(<<"Avatar fetch failed">>)
         ELSE Return(toBase64(reply.bytes, "image/jpeg"))

\* c.req.query('theme') === 'dark' ? 'dark' : 'light'
themeOf(query) == IF query = <<"dark">> THEN "dark" ELSE "light"

\* c.req.path.endsWith('/s')
endsWithS(path) == path # <<>> /\ path[Len(path)] = <<"s">>

\* args.user.name || args.user.username
displayName(u) == IF u.name = <<>> \/ u.name[1] = <<>> THEN u.username ELSE u.name[1]

buildSvg(u, avatar, flags, totalXp, theme) ==
    [kind |-> "card",
     panel |-> IF theme = "dark" THEN "#020617" ELSE "#f8fafc",
     fg |-> IF theme = "dark" THEN "#e5e7eb" ELSE "#020617",
     sub |-> IF theme = "dark" THEN "#94a3b8" ELSE "#475569",
     avatar |-> avatar,
     username |-> escapeXml(displayName(u)),
     xp |-> formatNumber(totalXp),
     flags |-> [i \in 1..Len(flags) |->
                   [x |-> 20 + (i - 1) * 12, text |-> escapeXml(<<flags[i]>>)]]]

(***************************************************************************)
(* The Duolingo card: app.get('/:username/*')                              *)
(***************************************************************************)
Usernames == {<<>>, <<"x">>, <<"s">>, <<"a", "&", "b">>}

DuoRequests ==
    {[path |-> <<u>> \o tail, theme |-> t] :
        u \in Usernames,
        tail \in {<<>>, <<<<"s">>>>, <<<<"t">>>>},
        t \in {<<>>, <<"dark">>, <<"super">>}}

Course(l, f, x) == [learningLanguage |-> l, fromLanguage |-> f, points |-> <<>>, xp |-> <<x>>]

DuoUsers ==
    {[username |-> <<"x">>, name |-> <<<<"A", "<", "b">>>>, picture |-> <<"//cdn/a">>,
      languages |-> <<>>,
      courses |-> <<<<Course("es", "en", 1500), Course("es", "en", 1500)>>>>],
     [username |-> <<"x">>, name |-> <<>>, picture |-> <<"https:", "//cdn/b">>,
      languages |-> <<<<Course("fr", "en", 300)>>>>,
      courses |-> <<<<Course("de", "en", 0)>>>>],
     [username |-> <<"s">>, name |-> <<<<>>>>, picture |-> <<"//cdn/c">>,
      languages |-> <<>>, courses |-> <<>>]}

NoUser == [username |-> <<>>, name |-> <<>>, picture |-> <<>>, languages |-> <<>>, courses |-> <<>>]

UserReplies ==
    {[status |-> st, users |-> <<>>] : st \in {0, 200, 404, 429, 500}}
    \cup {[status |-> 200, users |-> <<u>>] : u \in DuoUsers}

AvatarReplies ==
    {[status |-> st, bytes |-> <<>>] : st \in {0, 404, 500}}
    \cup {[status |-> 200, bytes |-> b] : b \in {<<>>, <<7>>, <<7, 8, 9>>}}

\* the courses part is not exercised on its own in this specification
CoursesOff == cpc = "off" /\ resolved = NoResult /\ flagRecs = <<>>

DInit ==
    /\ CoursesOff
    /\ QiitaOff
    /\ dreq \in DuoRequests
    /\ dpc = "start"
    /\ dresp = <<>>
    /\ dcalls = <<>>
    /\ user = NoUser
    /\ showSpecial = FALSE

\* the handler up to `await fetchUser(username)`
DuoStart ==
    /\ dpc = "start"
    /\ IF dreq.path[1] = <<>>
       THEN /\ dresp' = noContent
            /\ dpc' = "done"
            /\ UNCHANGED <<showSpecial, dcalls>>
       ELSE /\ showSpecial' = endsWithS(dreq.path)
            /\ dcalls' = Append(dcalls, [url |-> userUrl(dreq.path[1]), status |-> <<>>])
            /\ dpc' = "fetchUser"
            /\ UNCHANGED dresp
    /\ UNCHANGED <<dreq, user, courseVars, qiitaVars>>

Settle(calls, status) == [calls EXCEPT ![Len(calls)].status = <<status>>]

\* fetchUser settles; on success the handler goes on to `await loadAvatar`
DuoFetchUser ==
    /\ dpc = "fetchUser"
    /\ \E reply \in UserReplies :
           LET r == fetchUser(reply)
           IN  IF r.ok
               THEN /\ user' = r.value
                    /\ dcalls' = Append(Settle(dcalls, reply.status),
                                        [url |-> avatarUrl(r.value.picture), status |-> <<>>])
                    /\ dpc' = "loadAvatar"
                    /\ UNCHANGED dresp
               ELSE /\ dresp' = errorSvg(r.message, 500)
                    /\ dcalls' = Settle(dcalls, reply.status)
                    /\ dpc' = "done"
                    /\ UNCHANGED user
    /\ UNCHANGED <<dreq, showSpecial, courseVars, qiitaVars>>

\* loadAvatar settles; on success the handler resolves, builds and responds
DuoLoadAvatar ==
    /\ dpc = "loadAvatar"
    /\ \E reply \in AvatarReplies :
           LET r == loadAvatar(reply)
               rc == resolveCourses(user, showSpecial)
           IN  /\ dcalls' = Settle(dcalls, reply.status)
               /\ IF r.ok
                  THEN /\ resolved' = rc
                       /\ flagRecs' = sortedFlags(user, showSpecial)
                       /\ dresp' = svgResponse(buildSvg(user, r.value, rc.flags, rc.totalXp,
                                                        themeOf(dreq.theme)))
                  ELSE /\ dresp' = errorSvg(r.message, 500)
                       /\ UNCHANGED <<resolved, flagRecs>>
    /\ dpc' = "done"
    /\ UNCHANGED <<dreq, user, showSpecial, cpc, qiitaVars>>

DNext == DuoStart \/ DuoFetchUser \/ DuoLoadAvatar

SpecDuo == DInit /\ [][DNext]_vars

(***************************************************************************)
(* The Qiita card: utilities                                               *)
(* Strings are sequences of one-character tokens here, apart from the      *)
(* fixed texts of messages.                                                *)
(***************************************************************************)
SafeIdLen == 64

\* the characters of the model that /[a-zA-Z0-9_-]/ matches
SafeChars == {"u", "1", "a", "b", "A", "_", "-"}

\* str.replace(/[^a-zA-Z0-9_-]/g, "_").slice(0, 64)
makeSafeId(str) ==
    LET m == [i \in 1..Len(str) |-> IF str[i] \in SafeChars THEN str[i] ELSE "_"]
    IN  SubSeq(m, 1, Min(Len(m), SafeIdLen))

\* new Intl.NumberFormat("ja-JP", { maximumFractionDigits: 0 }).format(n), integer n
formatNumberJa(n) ==
    IF n < 0
    THEN [sign |-> "-", groups |-> groupDigits(0 - n)]
    ELSE [sign |-> "", groups |-> groupDigits(n)]

\* String.prototype.trim
RECURSIVE trim(_)
trim(str) ==
    IF str = <<>>
    THEN str
    ELSE IF Head(str) = " "
         THEN trim(Tail(str))
         ELSE IF str[Len(str)] = " "
              THEN trim(SubSeq(str, 1, Len(str) - 1))
              ELSE str

resolveUsername(u) ==
    IF u.name # <<>> /\ trim(u.name[1]) # <<>> THEN u.name[1] ELSE u.id

\* String(res.status) for the statuses of the model
statusText(st) ==
    CASE st = 404 -> "404"
      [] st = 429 -> "429"
      [] st = 503 -> "503"
      [] OTHER -> "200"

\* an Error with a message and, when set, a numeric status
Fail(message, status) == [ok |-> FALSE, message |-> message, status |-> status]

fetchQiita(reply) ==
    IF reply.status = 0
    THEN Fail(<<"fetch failed">>, <<>>)
    ELSE IF resOk(reply.status)
         THEN Return(reply.json)
         ELSE Fail(IF reply.message # <<>> /\ reply.message[1] # <<>>
                   THEN reply.message[1]
                   ELSE <<"Qiita API error (", statusText(reply.status), ")">>,
                   <<reply.status>>)

imagetobase64(reply) ==
    IF reply.status = 0
    THEN Fail(<<"fetch failed">>, <<>>)
    ELSE IF ~resOk(reply.status)
         THEN Fail(<<"Icon fetch failed">>, <<>>)
         ELSE Return(toBase64(reply.bytes, OrElse(reply.contentType, "image/png")))

errorSvgQiita(message, status) ==
    [status |-> status,
     contentType |-> <<"image/svg+xml; charset=utf-8">>,
     cacheControl |-> <<"no-store">>,
     body |-> [kind |-> "error", text |-> escapeXml(message)]]

\* the catch block of the handler
catchError(err, userId) ==
    LET status == OrElse(err.status, 500)
    IN  IF status = 404
        THEN errorSvgQiita(<<"User ", "\"">> \o userId \o <<"\"", " not found">>, 404)
        ELSE IF status = 429
             THEN errorSvgQiita(<<"Rate limit exceeded">>, 429)
             ELSE errorSvgQiita(err.message, status)

\* items.reduce((a, b) => a + b.likes_count, 0)
RECURSIVE SumLikes(_)
SumLikes(its) == IF its = <<>> THEN 0 ELSE Head(its).likes_count + SumLikes(Tail(its))

\* items.reduce((a, b) => a + b.stocks_count, 0)
RECURSIVE SumStocks(_)
SumStocks(its) == IF its = <<>> THEN 0 ELSE Head(its).stocks_count + SumStocks(Tail(its))

generateSvg(u, icon, its, theme) ==
    [kind |-> "card",
     theme |-> theme,
     cardBg |-> IF theme = "dark" THEN "#071018" ELSE "#fbfdff",
     fg |-> IF theme = "dark" THEN "#e6f0e0" ELSE "#0b1220",
     sub |-> IF theme = "dark" THEN "#93a09a" ELSE "#6b7280",
     username |-> escapeXml(resolveUsername(u)),
     userId |-> escapeXml(u.id),
     clipId |-> <<"avatar-">> \o makeSafeId(u.id),
     uid |-> makeSafeId(u.id),
     icon |-> icon,
     posts |-> formatNumberJa(Len(its)),
     likes |-> formatNumberJa(SumLikes(its)),
     stocks |-> formatNumberJa(SumStocks(its)),
     followers |-> formatNumberJa(u.followers_count)]

cardResponse(svg) ==
    [status |-> 200,
     contentType |-> <<"image/svg+xml; charset=utf-8">>,
     cacheControl |-> <<"public, max-age=0, s-maxage=86400, stale-while-revalidate=86400">>,
     body |-> svg]

\* c.req.query(name): the first value of the parameter, when there is one
RECURSIVE queryParam(_, _)
queryParam(query, name) ==
    IF query = <<>>
    THEN <<>>
    ELSE IF Head(query)[1] = name
         THEN <<Head(query)[2]>>
         ELSE queryParam(Tail(query), name)

\* c.req.query("theme") === "dark" ? "dark" : "light"
themeOfQuery(query) == IF queryParam(query, "theme") = <<"dark">> THEN "dark" ELSE "light"

\* URLSearchParams.set: the first pair of the name takes the value, the others go
RECURSIVE setParam(_, _, _)
setParam(query, name, value) ==
    IF query = <<>>
    THEN <<<<name, value>>>>
    ELSE IF Head(query)[1] = name
         THEN <<<<name, value>>>> \o SelectSeq(Tail(query), LAMBDA kv : kv[1] # name)
         ELSE <<Head(query)>> \o setParam(Tail(query), name, value)

\* cacheKey without `url.search = ""`
cacheKey_KeepSearch(req) ==
    [path |-> req.userId, query |-> setParam(req.query, "theme", themeOfQuery(req.query))]

\* url.search = ""; url.searchParams.set("theme", theme); new Request(url, GET)
cacheKey(req) ==
    LET url == [path |-> req.userId, query |-> req.query]
        cleared == [url EXCEPT !.query = <<>>]
    IN  [cleared EXCEPT !.query = setParam(@, "theme", themeOfQuery(req.query))]

\* cache.put(key, response)
cachePut(c, key, response) ==
    [k \in DOMAIN c \cup {key} |-> IF k = key THEN response ELSE c[k]]

\* items.push(...data) keeping only the last page
pushItems_Replace(its, data) == data

\* items.push(...data)
pushItems(its, data) == its \o data

(***************************************************************************)
(* The Qiita card: the upstream and the requests                           *)
(***************************************************************************)
MaxPages == 2        \* the upstream serves at most this many non-empty pages

PageSizes == {1, 2}

\* a user the upstream knows and one it does not
KnownId == <<"u", ".", "1">>

UnknownId == <<"a", "&", "b">>

KnownUser ==
    [id |-> KnownId, name |-> <<<<"A", "<", "b">>>>,
     profile_image_url |-> <<"https://img/u1">>, followers_count |-> 1234]

ErrorReplies ==
    {[status |-> 0, message |-> <<>>, json |-> <<>>],
     [status |-> 429, message |-> <<<<"Rate limit exceeded">>>>, json |-> <<>>],
     [status |-> 503, message |-> <<>>, json |-> <<>>]}

ProfileReplies(userId) ==
    ErrorReplies \cup
    (IF userId = KnownId
     THEN {[status |-> 200, message |-> <<>>, json |-> KnownUser]}
     ELSE {[status |-> 404, message |-> <<<<"Not found">>>>, json |-> <<>>]})

\* k items of page p
PageData(p, k) == [i \in 1..k |-> [likes_count |-> p, stocks_count |-> i]]

ItemReplies(p) ==
    ErrorReplies \cup
    {[status |-> 200, message |-> <<>>, json |-> PageData(p, k)] :
        k \in {0} \cup (IF p <= MaxPages THEN PageSizes ELSE {})}

IconReplies ==
    {[status |-> 0, contentType |-> <<>>, bytes |-> <<>>],
     [status |-> 404, contentType |-> <<>>, bytes |-> <<>>],
     [status |-> 200, contentType |-> <<>>, bytes |-> <<7, 8>>]}

QiitaRequests ==
    {[userId |-> u, query |-> qy] :
        u \in {KnownId, UnknownId},
        qy \in {<<>>,
                <<<<"theme", "dark">>>>,
                <<<<"x", "1">>, <<"theme", "dark">>>>,
                <<<<"theme", "blue">>, <<"x", "1">>>>}}

Call(op, pg) == [op |-> op, page |-> pg, result |-> "pending", data |-> <<>>]

\* the last operation of the log settles
Settled(calls, result, data) ==
    [calls EXCEPT ![Len(calls)].result = result, ![Len(calls)].data = data]

(***************************************************************************)
(* The Qiita card: app.get("/:user_id")                                   *)
(***************************************************************************)
QInit ==
    /\ CoursesOff
    /\ DuoOff
    /\ user = NoUser
    /\ showSpecial = FALSE
    /\ qreq = <<>>
    /\ qpc = "idle"
    /\ cache = <<>>
    /\ qstored = {}
    /\ qhit = FALSE
    /\ quser = <<>>
    /\ items = <<>>
    /\ page = 0
    /\ qcalls = <<>>
    /\ qresp = <<>>

QOther == <<user, showSpecial, courseVars, duoVars>>

\* a request arrives; the handler runs up to `await cache.match(cacheKey)`
QStart ==
    /\ qpc \in {"idle", "done"}
    /\ \E req \in QiitaRequests : qreq' = req
    /\ qpc' = "match"
    /\ qcalls' = <<Call("match", 0)>>
    /\ qhit' = FALSE
    /\ quser' = <<>>
    /\ items' = <<>>
    /\ page' = 0
    /\ qresp' = <<>>
    /\ UNCHANGED <<cache, qstored, QOther>>

\* cache.match settles: `if (cached) return cached`, else on to fetchQiita
QMatch ==
    /\ qpc = "match"
    /\ IF cacheKey(qreq) \in DOMAIN cache
       THEN /\ qhit' = TRUE
            /\ qresp' = cache[cacheKey(qreq)]
            /\ qcalls' = Settled(qcalls, "hit", <<>>)
            /\ qpc' = "done"
       ELSE /\ qhit' = FALSE
            /\ qcalls' = Append(Settled(qcalls, "miss", <<>>), Call("user", 0))
            /\ qpc' = "fetchUser"
            /\ UNCHANGED qresp
    /\ UNCHANGED <<qreq, cache, qstored, quser, items, page, QOther>>

\* the profile fetch settles; fetchAllItems starts with page 1
QFetchUser ==
    /\ qpc = "fetchUser"
    /\ \E reply \in ProfileReplies(qreq.userId) :
           LET r == fetchQiita(reply)
           IN  IF r.ok
               THEN /\ quser' = r.value
                    /\ items' = <<>>
                    /\ page' = 1
                    /\ qcalls' = Append(Settled(qcalls, "ok", <<>>), Call("items", 1))
                    /\ qpc' = "fetchItems"
                    /\ UNCHANGED qresp
               ELSE /\ qresp' = catchError(r, qreq.userId)
                    /\ qcalls' = Settled(qcalls, "fail", <<>>)
                    /\ qpc' = "done"
                    /\ UNCHANGED <<quser, items, page>>
    /\ UNCHANGED <<qreq, cache, qstored, qhit, QOther>>

\* one page of fetchAllItems settles
QFetchItems ==
    /\ qpc = "fetchItems"
    /\ \E reply \in ItemReplies(page) :
           LET r == fetchQiita(reply)
           IN  IF ~r.ok
               THEN /\ qresp' = catchError(r, qreq.userId)
                    /\ qcalls' = Settled(qcalls, "fail", <<>>)
                    /\ qpc' = "done"
                    /\ UNCHANGED <<items, page>>
               ELSE IF Len(r.value) = 0
                    THEN /\ qcalls' = Append(Settled(qcalls, "ok", r.value), Call("icon", 0))
                         /\ qpc' = "icon"
                         /\ UNCHANGED <<items, page, qresp>>
                    ELSE /\ items' = pushItems(items, r.value)
                         /\ page' = page + 1
                         /\ qcalls' = Append(Settled(qcalls, "ok", r.value),
                                             Call("items", page + 1))
                         /\ qpc' = "fetchItems"
                         /\ UNCHANGED qresp
    /\ UNCHANGED <<qreq, cache, qstored, qhit, quser, QOther>>

\* the icon fetch settles; the card is rendered and cache.put is awaited
QIcon ==
    /\ qpc = "icon"
    /\ \E reply \in IconReplies :
           LET r == imagetobase64(reply)
           IN  IF r.ok
               THEN /\ qresp' = cardResponse(generateSvg(quser, r.value, items,
                                                         themeOfQuery(qreq.query)))
                    /\ qcalls' = Append(Settled(qcalls, "ok", <<>>), Call("put", 0))
                    /\ qpc' = "put"
               ELSE /\ qresp' = catchError(r, qreq.userId)
                    /\ qcalls' = Settled(qcalls, "fail", <<>>)
                    /\ qpc' = "done"
    /\ UNCHANGED <<qreq, cache, qstored, qhit, quser, items, page, QOther>>

\* cache.put settles: the response is returned, or the rejection is caught
QPut ==
    /\ qpc = "put"
    /\ \E stored \in BOOLEAN :
           IF stored
           THEN /\ cache' = cachePut(cache, cacheKey(qreq), qresp)
                /\ qstored' = qstored \cup
                       {[userId |-> qreq.userId, theme |-> themeOfQuery(qreq.query),
                         query |-> qreq.query]}
                /\ qcalls' = Settled(qcalls, "ok", <<>>)
                /\ UNCHANGED qresp
           ELSE /\ qresp' = catchError(Fail(<<"cache put failed">>, <<>>), qreq.userId)
                /\ qcalls' = Settled(qcalls, "fail", <<>>)
                /\ UNCHANGED <<cache, qstored>>
    /\ qpc' = "done"
    /\ UNCHANGED <<qreq, qhit, quser, items, page, QOther>>

QNext == QStart \/ QMatch \/ QFetchUser \/ QFetchItems \/ QIcon \/ QPut

SpecQiita == QInit /\ [][QNext]_vars

(***************************************************************************)
(* Properties of resolveCourses                                            *)
(***************************************************************************)
inputCourses == courseList(user)

\* the (learningLanguage, fromLanguage) pairs of the courses of a list (an
\* entry without a learning language is no course)
PairKeys(cs) ==
    {<<cs[i].learningLanguage, cs[i].fromLanguage>> :
        i \in {j \in 1..Len(cs) : cs[j].learningLanguage # ""}}

\* the largest XP seen for a pair, starting from 0
RECURSIVE PairMax(_, _, _)
PairMax(cs, k, i) ==
    IF i > Len(cs)
    THEN 0
    ELSE IF <<cs[i].learningLanguage, cs[i].fromLanguage>> = k
         THEN Max(courseXp(cs[i]), PairMax(cs, k, i + 1))
         ELSE PairMax(cs, k, i + 1)

RECURSIVE SumPairMax(_, _)
SumPairMax(cs, keys) ==
    IF keys = {}
    THEN 0
    ELSE LET k == CHOOSE x \in keys : TRUE
         IN  PairMax(cs, k, 1) + SumPairMax(cs, keys \ {k})

\* the languages the input courses teach
Learned == {inputCourses[i].learningLanguage : i \in 1..Len(inputCourses)} \ {""}

\* the XP of the first input course of a language
FirstXp(code) ==
    LET i == CHOOSE j \in 1..Len(inputCourses) :
                 /\ inputCourses[j].learningLanguage = code
                 /\ \A k \in 1..(j - 1) : inputCourses[k].learningLanguage # code
    IN  courseXp(inputCourses[i])

SpecialIndex(code) == CHOOSE i \in 1..Len(SpecialCodes) : SpecialCodes[i] = code

IsPlaceholder(code) == code \in Range(SpecialCodes) /\ code \notin Learned

Candidates ==
    Learned \cup (IF showSpecial THEN {c \in Range(SpecialCodes) : c \notin Learned} ELSE {})

NoRepeat(s) == \A i, j \in 1..Len(s) : s[i] = s[j] => i = j

\* C1: totalXp is the sum, over the distinct (learningLanguage, fromLanguage)
\* pairs of the course list, of the largest XP seen for the pair, so that a
\* course entry repeated identically does not increase it.
C1_TotalXpIsSumOfPairMax ==
    cpc = "done" => resolved.totalXp = SumPairMax(inputCourses, PairKeys(inputCourses))

\* C2: the badge selection holds at most 50 codes and no code twice, whatever
\* showSpecial is; an allow-list code that is a real badge is not added again.
C2_SelectionBoundedNoRepeat ==
    cpc = "done" =>
        /\ Len(resolved.flags) <= 50
        /\ NoRepeat(resolved.flags)
        /\ \A i, j \in 1..Len(flagRecs) : flagRecs[i].code = flagRecs[j].code => i = j

C2_Witness ==
    /\ cpc = "done"
    /\ showSpecial
    /\ "zs" \in Learned
    /\ "zs" \in Range(resolved.flags)
    /\ Len(inputCourses) > MaxFlags
    /\ Len(resolved.flags) = MaxFlags

\* C3: without showSpecial an allow-list code is selected only when it is the
\* learning language of an input course; with showSpecial and no allow-list
\* code learned, the three allow-list codes are all selected and each is
\* recorded with special = TRUE while every real badge, also one of XP 0, is
\* recorded with special = FALSE.
C3_SpecialOnlyOnRequestAndMarked ==
    cpc = "done" =>
        /\ ~showSpecial =>
               \A i \in 1..Len(SpecialCodes) :
                   SpecialCodes[i] \in Range(resolved.flags) => SpecialCodes[i] \in Learned
        /\ (showSpecial /\ Range(SpecialCodes) \cap Learned = {}) =>
               /\ Range(SpecialCodes) \subseteq Range(resolved.flags)
               /\ \A i \in 1..Len(flagRecs) :
                      flagRecs[i].special <=> flagRecs[i].code \in Range(SpecialCodes)

C3_Witness ==
    /\ cpc = "done"
    /\ showSpecial
    /\ Range(SpecialCodes) \cap Learned = {}
    /\ \E i \in 1..Len(flagRecs) : ~flagRecs[i].special /\ flagRecs[i].xp = 0
    /\ \E i \in 1..Len(flagRecs) : flagRecs[i].special

\* C4: a course becomes a real badge only if its XP is greater than 0: without
\* showSpecial every selected code has an input course of positive XP, and no
\* courses give no badges and totalXp 0.
C4_ZeroXpCourseIsNoBadge ==
    (cpc = "done" /\ ~showSpecial) =>
        /\ \A code \in Range(resolved.flags) :
               \E i \in 1..Len(inputCourses) :
                   /\ inputCourses[i].learningLanguage = code
                   /\ courseXp(inputCourses[i]) > 0
        /\ inputCourses = <<>> => (resolved.flags = <<>> /\ resolved.totalXp = 0)

\* the order of the selection, with the placeholders before or after the
\* real badges
SelectionOrdered(specialsFirst) ==
    LET out == resolved.flags
    IN  /\ Range(out) \subseteq Candidates
        /\ Len(out) = Min(MaxFlags, Cardinality(Candidates))
        /\ \A i, j \in 1..Len(out) :
               i < j =>
                   /\ (IsPlaceholder(out[i]) /\ ~IsPlaceholder(out[j])) => specialsFirst
                   /\ (~IsPlaceholder(out[i]) /\ IsPlaceholder(out[j])) => ~specialsFirst
                   /\ (~IsPlaceholder(out[i]) /\ ~IsPlaceholder(out[j])) =>
                          FirstXp(out[i]) >= FirstXp(out[j])
                   /\ (IsPlaceholder(out[i]) /\ IsPlaceholder(out[j])) =>
                          SpecialIndex(out[i]) < SpecialIndex(out[j])
        /\ \A k \in Range(out), d \in Candidates \ Range(out) :
               /\ (IsPlaceholder(d) /\ ~IsPlaceholder(k)) => ~specialsFirst
               /\ (~IsPlaceholder(d) /\ IsPlaceholder(k)) => specialsFirst
               /\ (~IsPlaceholder(d) /\ ~IsPlaceholder(k)) => FirstXp(k) >= FirstXp(d)
               /\ (IsPlaceholder(d) /\ IsPlaceholder(k)) =>
                      SpecialIndex(k) < SpecialIndex(d)

\* C9 as stated: every special badge comes after every real badge, the real
\* badges are in descending order of recorded XP, the special badges keep the
\* allow-list order, and the cap keeps the first entries of that order.
C9_SpecialsAfterReals == cpc = "done" => SelectionOrdered(FALSE)

\* C9 amended: every special badge comes before every real badge, the real
\* badges are in descending order of recorded XP, the special badges keep the
\* allow-list order, and the cap of 32 keeps the first entries of that order.
C9_SpecialsBeforeReals == cpc = "done" => SelectionOrdered(TRUE)

C9_Witness ==
    /\ cpc = "done"
    /\ showSpecial
    /\ Cardinality(Candidates) > MaxFlags
    /\ \E i, j \in 1..Len(resolved.flags) :
           /\ i < j
           /\ IsPlaceholder(resolved.flags[i])
           /\ ~IsPlaceholder(resolved.flags[j])
    /\ \E i, j \in 1..Len(inputCourses) :
           /\ i < j
           /\ courseXp(inputCourses[i]) < courseXp(inputCourses[j])
           /\ inputCourses[i].learningLanguage \in Range(resolved.flags)
           /\ inputCourses[j].learningLanguage \in Range(resolved.flags)

(***************************************************************************)
(* Properties of the Duolingo handler                                      *)
(***************************************************************************)
\* the status the n-th fetch of the request settled with (0: it rejected)
CallStatus(calls, n) == calls[n].status[1]

IsErrorCard(resp) ==
    /\ resp.contentType # <<>>
    /\ resp.body # <<>>
    /\ resp.body.kind = "error"
    /\ resp.cacheControl = <<"no-store">>

NotFoundText(id) == escapeXml(<<"User ", "\"">> \o id \o <<"\"", " not found">>)

\* C5: a request whose profile fetch fails ends in an error card with
\* Cache-Control: no-store whose status follows the error kind: 404 with the
\* text `User "<identifier>" not found` when the upstream answers 404, 429 when
\* it answers 429, and 500 for any other failure.
C5_ErrorStatusByKind ==
    (dpc = "done" /\ Len(dcalls) = 1) =>
        LET st == CallStatus(dcalls, 1)
        IN  /\ IsErrorCard(dresp)
            /\ st = 404 => (dresp.status = 404 /\ dresp.body.text = NotFoundText(dreq.path[1]))
            /\ st = 429 => dresp.status = 429
            /\ st \notin {404, 429} => dresp.status = 500

\* the fixed placeholder the card embeds when no avatar could be fetched
PlaceholderAvatar == [mime |-> "image/svg+xml", base64 |-> [bytes |-> <<>>, pad |-> 0]]

\* C6: once the profile fetch has succeeded the request ends with a 200
\* response carrying the rendered card, and a failed avatar fetch makes that
\* card embed the placeholder avatar.
C6_AvatarFailureDegrades ==
    (dpc = "done" /\ Len(dcalls) = 2) =>
        /\ dresp.status = 200
        /\ dresp.body.kind = "card"
        /\ ~resOk(CallStatus(dcalls, 2)) => dresp.body.avatar = PlaceholderAvatar

(***************************************************************************)
(* Properties of the Qiita handler                                         *)
(***************************************************************************)
LastCall == qcalls[Len(qcalls)]

ItemCalls == SelectSeq(qcalls, LAMBDA e : e.op = "items")

HasCall(op) == \E i \in 1..Len(qcalls) : qcalls[i].op = op

\* the pages the first n item fetches returned, one after the other
RECURSIVE PagesConcat(_, _)
PagesConcat(calls, n) ==
    IF n = 0 THEN <<>> ELSE PagesConcat(calls, n - 1) \o calls[n].data

RECURSIVE PagesTotal(_, _)
PagesTotal(calls, n) ==
    IF n = 0 THEN 0 ELSE PagesTotal(calls, n - 1) + Len(calls[n].data)

\* the theme a request asks for: dark when its first theme parameter is dark
EffectiveTheme(req) ==
    IF \E i \in 1..Len(req.query) :
           /\ req.query[i] = <<"theme", "dark">>
           /\ \A j \in 1..(i - 1) : req.query[j][1] # "theme"
    THEN "dark"
    ELSE "light"

RequestPair == [userId |-> qreq.userId, theme |-> EffectiveTheme(qreq)]

\* the path and effective theme of the requests that stored an entry
StoredPairs == {[userId |-> e.userId, theme |-> e.theme] : e \in qstored}

\* C7: when cache.put fails after the card has been rendered, the caller
\* still receives the 200 response with the card.
C7_CachePutBestEffort ==
    (qpc = "done" /\ LastCall.op = "put" /\ LastCall.result = "fail") =>
        (qresp.status = 200 /\ qresp.body.kind = "card")

\* C8: a request finds a cache entry exactly when a request of the same path
\* and effective theme stored one, whatever the other query parameters are;
\* on a hit the handler returns that entry, rendered for that path and theme,
\* with cache.match as the only operation of the request.
C8_CacheHitShortCircuits ==
    /\ qpc \in {"fetchUser", "fetchItems", "icon", "put"} =>
           (~qhit /\ RequestPair \notin StoredPairs)
    /\ (qpc = "done" /\ ~qhit /\ LastCall.op # "put") => RequestPair \notin StoredPairs
    /\ qhit =>
           /\ qpc = "done"
           /\ RequestPair \in StoredPairs
           /\ qcalls = <<[op |-> "match", page |-> 0, result |-> "hit", data |-> <<>>]>>
           /\ qresp.status = 200
           /\ qresp.body.kind = "card"
           /\ qresp.body.theme = EffectiveTheme(qreq)
           /\ qresp.body.userId = escapeXml(qreq.userId)
           /\ \E k \in DOMAIN cache : cache[k] = qresp

C8_Witness ==
    /\ qpc = "done"
    /\ qhit
    /\ \E e \in qstored :
           /\ e.userId = qreq.userId
           /\ e.theme = EffectiveTheme(qreq)
           /\ e.query # qreq.query
    /\ \E e \in qstored : e.theme # EffectiveTheme(qreq)

\* C10: fetchAllItems asks for the pages 1, 2, 3, ... one at a time, each only
\* after the page before came back non-empty; once a page comes back empty
\* `items` is the concatenation in page order of the pages before it and the
\* post count their total length; a failed page fetch ends the request with an
\* error card, with no icon fetch and no cache write.
C10_FetchAllItemsPaging ==
    LET ic == ItemCalls
        n == Len(ic)
    IN  /\ \A i \in 1..(Len(qcalls) - 1) : qcalls[i].result # "pending"
        /\ \A i \in 1..n : ic[i].page = i
        /\ \A i \in 1..(n - 1) : ic[i].result = "ok" /\ ic[i].data # <<>>
        /\ (n > 0 /\ ic[n].result = "pending") =>
               (page = n /\ items = PagesConcat(ic, n - 1))
        /\ (n > 0 /\ ic[n].result = "ok") =>
               /\ ic[n].data = <<>>
               /\ items = PagesConcat(ic, n - 1)
               /\ (qresp # <<>> /\ qresp.body.kind = "card") =>
                      qresp.body.posts = formatNumberJa(PagesTotal(ic, n - 1))
        /\ (n > 0 /\ ic[n].result = "fail") =>
               /\ qpc = "done"
               /\ qresp.body.kind = "error"
               /\ ~HasCall("icon")
               /\ ~HasCall("put")

C10_Witness ==
    /\ qpc = "done"
    /\ Len(ItemCalls) = 3
    /\ Len(ItemCalls[1].data) = 1
    /\ Len(ItemCalls[2].data) = 2
    /\ ItemCalls[3].data = <<>>
    /\ qresp.status = 200
    /\ Len(items) = 3

====
